---- MODULE Spec2Model ----
(***************************************************************************)
(* Model of save-daddy.py: the autosave timer callback (autosave_timer),   *)
(* its registration (register / unregister / load_post_handler /           *)
(* start_autosave_timer) and the backup management it performs.            *)
(*                                                                         *)
(* Paths and file names are sequences of string fragments, so that         *)
(* str.startswith / str.endswith / os.path.dirname / os.path.splitext are  *)
(* computed on the text as the code computes them.  Time is in seconds.    *)
(***************************************************************************)
EXTENDS Integers, Sequences, FiniteSets, TLC

\* ---------------------------------------------------------------- bounds
MaxTime    == 65   \* while running, no timer fires after this many seconds
MaxEvents  == 3     \* at most this many events from outside: register(), document
                    \* loads, "save as", preference changes and failing host calls
MaxBackups == 2     \* max_backup_files is drawn from 1..MaxBackups

\* ------------------------------------------------------ program constants
WarmUp        == 1     \* first_interval=1.0
MinInterval   == 30    \* autosave_interval: min=30.0
\* (variant: the minimum interval is returned)
FallbackDelayIsMinimum == MinInterval
FallbackDelay == 300   \* return 300.0 when the preferences are unavailable
MinBackups    == 1     \* max_backup_files: min=1
NONE          == -1    \* the timer returned None (the host drops the timer)
RAISED        == -2    \* an exception left the timer (the host drops the timer)

Max(a, b) == IF a >= b THEN a ELSE b

Range(s) == {s[i] : i \in 1..Len(s)}

\* ------------------------------------------------------------ path algebra
startswith(s, p) == Len(p) <= Len(s) /\ SubSeq(s, 1, Len(p)) = p

endswith(s, x) == Len(x) <= Len(s) /\ SubSeq(s, Len(s) - Len(x) + 1, Len(s)) = x

LastSlash(p) ==
    LET sl == {i \in 1..Len(p) : p[i] = "/"}
    IN  IF sl = {} THEN 0 ELSE CHOOSE i \in sl : \A j \in sl : j <= i

\* os.path.dirname / os.path.basename / os.path.join
dirname(p) == IF LastSlash(p) <= 1 THEN SubSeq(p, 1, LastSlash(p))
              ELSE SubSeq(p, 1, LastSlash(p) - 1)

basename(p) == SubSeq(p, LastSlash(p) + 1, Len(p))

join(d, f) == d \o <<"/">> \o f

\* os.path.splitext(name)[0]: the name without its last ".ext" fragment
Exts == {".blend", ".txt"}

splitext0(n) == IF Len(n) > 1 /\ n[Len(n)] \in Exts THEN SubSeq(n, 1, Len(n) - 1) ELSE n

\* ------------------------------------------------------- the file system
DocsDir    == <<"/", "docs">>
TmpDir     == <<"/", "tmp">>
InstallDir == <<"/", "opt", "/", "blender">>
TmpSaveDir == <<"/", "tmp", "/", "autosave">>
MissingDir == <<"/", "gone">>

Unsaved    == <<>>                                  \* bpy.data.filepath == ""
DocProject == join(DocsDir, <<"project", ".blend">>)
\* /docs/cache is a symbolic link to the directory /tmp/cache
CacheLink   == join(DocsDir, <<"cache">>)
CacheTarget == join(TmpDir, <<"cache">>)
DocScene    == join(CacheLink, <<"scene", ".blend">>)

DocPaths == {Unsaved, DocProject, DocScene}

ExistingDirs == {DocsDir, TmpDir, InstallDir, TmpSaveDir, CacheLink, CacheTarget}

\* values of prefs.default_save_path ("" when not set)
DefaultPaths == {<<>>, TmpSaveDir, MissingDir}

\* values of prefs.autosave_interval (the property's min keeps it >= 30)
Intervals == {MinInterval, 2 * MinInterval}

\* values a user may enter for autosave_interval, one of them below the minimum
EnteredIntervals == Intervals \cup {MinInterval \div 3}

\* os.path.realpath: symbolic links resolved
realpath(p) == IF startswith(p, CacheLink)
               THEN CacheTarget \o SubSeq(p, Len(CacheLink) + 1, Len(p))
               ELSE p

\* bpy.path.abspath: an absolute path is returned as it is
abspath(p) == p

isdir(p) == p \in ExistingDirs

NoFiles == [f \in {} |-> 0]

\* files already in the directories before the add-on runs, with their mtime
UserFiles == {DocProject, join(DocsDir, <<"project", "_", "notes", ".txt">>),
              join(DocsDir, <<"other", ".blend">>)}

OldA == join(DocsDir, <<"project", "_", "v2", ".blend">>)
OldB == join(DocsDir, <<"project", "_", "old", ".blend">>)


\* the mtime a file found in the directory beforehand may carry: long past,
\* or later than every time the timer fires (a copied-in or touched file,
\* a clock that was set back)
PriorContents == {NoFiles,
                  [p \in {OldA, OldB} |-> 0],
                  [p \in {OldA} |-> MaxTime + 1]}

VARIABLES
    autosave_running,    \* global autosave_running
    has_prompted_save,   \* global has_prompted_save
    registered,          \* the classes are registered (the add-on is enabled)
    load_post,           \* load_post_handler is in bpy.app.handlers.load_post
    timers,              \* due times of the registrations of autosave_timer, ascending
    now,                 \* the clock, in seconds
    filepath,            \* bpy.data.filepath
    files,               \* the file system: path -> mtime
    prefs,               \* the add-on preferences (AutosavePreferences)
    events,              \* number of events from outside so far
    last,                \* what the last operation did
    promptCount,         \* prompt invocations since the last register()
    streak               \* paths written by the latest consecutive complete ticks

vars == <<autosave_running, has_prompted_save, registered, load_post, timers, now,
          filepath, files, prefs, events, last, promptCount, streak>>

\* ------------------------------------------------------------- the record of an operation
Log(op) == [op |-> op, running |-> autosave_running, steps |-> {},
            ret |-> NONE, interval |-> 0, maxb |-> 0,
            base_dir |-> <<>>, base_name |-> <<>>, new_filepath |-> <<>>,
            saveOk |-> FALSE, cands |-> <<>>, mtime |-> NoFiles,
            attempts |-> <<>>, deleted |-> {}, prompt |-> FALSE, entered |-> 0]

\* ------------------------------------------------------------- timers
\* bpy.app.timers.register adds a registration; the list is kept ascending
InsertDue(ts, d) ==
    LET k == Cardinality({i \in 1..Len(ts) : ts[i] <= d})
    IN  SubSeq(ts, 1, k) \o <<d>> \o SubSeq(ts, k + 1, Len(ts))

RemoveAt(ts, i) == SubSeq(ts, 1, i - 1) \o SubSeq(ts, i + 1, Len(ts))

\* start_autosave_timer(): no check of autosave_running or of an earlier registration
start_autosave_timer(ts) == InsertDue(ts, now + WarmUp)

\* ------------------------------------------------------------- autosave_timer, step by step
\* temp_dirs on a POSIX host (os.name != 'nt'): ['/tmp'], each made canonical
temp_dirs == <<realpath(TmpDir)>>

\* install_dir: the canonical directory of bpy.app.binary_path
install_dir == realpath(dirname(join(InstallDir, <<"blender">>)))

\* in_forbidden_path(path): textual prefix test on the canonical path
in_forbidden_path(path) ==
    IF path = <<>> THEN FALSE
    ELSE LET rp == realpath(path)
         IN  \/ \E i \in 1..Len(temp_dirs) : startswith(rp, temp_dirs[i])
             \/ startswith(rp, install_dir)

\* which branch names the destination: the document's directory, the default
\* directory, or none
UsesDocumentDir(current_filepath) ==
    current_filepath # <<>> /\ ~in_forbidden_path(current_filepath)

UsesDefaultDir(default_save_path) ==
    default_save_path # <<>> /\ isdir(abspath(default_save_path))

\* (variant: the default directory always gets the base name "untitled")
ResolveAlwaysUntitled(current_filepath, default_save_path) ==
    IF UsesDocumentDir(current_filepath)
    THEN [found |-> TRUE, base_dir |-> dirname(current_filepath),
          base_name |-> splitext0(basename(current_filepath))]
    ELSE IF UsesDefaultDir(default_save_path)
    THEN [found |-> TRUE, base_dir |-> abspath(default_save_path),
          base_name |-> <<"untitled">>]
    ELSE [found |-> FALSE, base_dir |-> <<>>, base_name |-> <<>>]

Resolve(current_filepath, default_save_path) ==
    IF UsesDocumentDir(current_filepath)
    THEN [found |-> TRUE, base_dir |-> dirname(current_filepath),
          base_name |-> splitext0(basename(current_filepath))]
    ELSE IF UsesDefaultDir(default_save_path)
    THEN [found |-> TRUE, base_dir |-> abspath(default_save_path),
          base_name |-> IF current_filepath # <<>>
                        THEN splitext0(basename(current_filepath))
                        ELSE <<"untitled">>]
    ELSE [found |-> FALSE, base_dir |-> <<>>, base_name |-> <<>>]

\* (variant: the document's path is not consulted)
ShouldPromptAnyDocument(current_filepath, prompted) == ~prompted

\* the prompt is invoked for an unsaved document that was not prompted yet
ShouldPrompt(current_filepath, prompted) == current_filepath = <<>> /\ ~prompted

\* (variant: the flag is not set)
PromptedAfterNotSet(prompted) == prompted

\* has_prompted_save after the prompt branch was taken
PromptedAfter(prompted) == TRUE

\* datetime.now().strftime("%d_%m_%Y_%H-%M"): the clock cut to the minute
SecondsPerMinute == 60

timestamp(t) == ToString(t \div SecondsPerMinute)

new_filename(base_name, t) == base_name \o <<"_", timestamp(t), ".blend">>

\* save_as_mainfile(filepath=new_filepath, copy=True): the file is (over)written now
WriteFile(fs, path, t) == [p \in DOMAIN fs \cup {path} |-> IF p = path THEN t ELSE fs[p]]

\* os.remove
RemoveFiles(fs, gone) == [p \in DOMAIN fs \ gone |-> fs[p]]

\* os.listdir(base_dir): the names directly in the directory
listdir(fs, d) == {basename(p) : p \in {q \in DOMAIN fs : dirname(q) = d}}

\* (variant: the suffix is not tested)
IsBackupNamePrefixOnly(f, base_name) == startswith(f, base_name \o <<"_">>)

\* f.startswith(base_name + "_") and f.endswith(".blend")
IsBackupName(f, base_name) ==
    startswith(f, base_name \o <<"_">>) /\ endswith(f, <<".blend">>)

\* the orders in which os.listdir may return a set of names
RECURSIVE Orders(_)
Orders(S) == IF S = {} THEN {<<>>}
             ELSE UNION {{<<x>> \o o : o \in Orders(S \ {x})} : x \in S}

\* backup_files.sort(key=getmtime): a stable sort, ascending
InsertByKey(sorted, x, key) ==
    LET k == Cardinality({i \in 1..Len(sorted) : key[sorted[i]] <= key[x]})
    IN  SubSeq(sorted, 1, k) \o <<x>> \o SubSeq(sorted, k + 1, Len(sorted))

RECURSIVE SortByMtime(_, _)
SortByMtime(list, key) ==
    IF list = <<>> THEN <<>>
    ELSE InsertByKey(SortByMtime(SubSeq(list, 1, Len(list) - 1), key), list[Len(list)], key)

\* while len(backup_files) > max_backup_files: pop(0) and os.remove, a failing
\* removal logged and passed over
MustRemoveOffByOne(backup_files, max_backup_files) == Len(backup_files) >= max_backup_files

MustRemove(backup_files, max_backup_files) == Len(backup_files) > max_backup_files

\* (variant: a failing removal ends the loop)
GoesOnAfterRemovalNotIfFailed(failed) == ~failed

\* the try/except around os.remove: the loop goes on after a removal, failed or not
GoesOnAfterRemoval(failed) == TRUE

RECURSIVE RemoveOld(_, _, _)
RemoveOld(backup_files, max_backup_files, cannot) ==
    IF MustRemove(backup_files, max_backup_files)
    THEN LET f == backup_files[1]
             r == IF GoesOnAfterRemoval(f \in cannot)
                  THEN RemoveOld(SubSeq(backup_files, 2, Len(backup_files)),
                                 max_backup_files, cannot)
                  ELSE [attempts |-> <<>>, deleted |-> {}]
         IN  [attempts |-> <<f>> \o r.attempts,
              deleted  |-> (IF f \in cannot THEN {} ELSE {f}) \cup r.deleted]
    ELSE [attempts |-> <<>>, deleted |-> {}]

\* (variant: the flag is not consulted)
TimerProceedsAlways(running) == TRUE

\* if not autosave_running: return None -- the timer goes on only when running
TimerProceeds(running) == running

\* whether backup management runs after the save attempt (it follows the
\* try/except of the save unconditionally)
RotatesAfterSave(saveOk) == TRUE

\* AutosavePreferences: the values the three properties may hold
Preferences == [autosave_interval : Intervals,
                max_backup_files  : MinBackups..MaxBackups,
                default_save_path : DefaultPaths]

\* the values a user may enter in the preferences panel
EnteredPreferences == [autosave_interval : EnteredIntervals,
                      max_backup_files  : MinBackups..MaxBackups,
                      default_save_path : DefaultPaths]

\* (variant: the value is stored as entered)
ClampIntervalNot(v) == v

\* FloatProperty(min=30.0): a value below the minimum is stored as the minimum
ClampInterval(v) == Max(v, MinInterval)

\* ------------------------------------------------------------- the operations
Init ==
    /\ autosave_running = TRUE
    /\ has_prompted_save = FALSE
    /\ registered = FALSE
    /\ load_post = FALSE
    /\ timers = <<>>
    /\ now = 0
    /\ filepath = Unsaved
    /\ \E prior \in PriorContents :
          files = [p \in UserFiles \cup DOMAIN prior |->
                      IF p \in DOMAIN prior THEN prior[p] ELSE 0]
    /\ prefs \in {p \in Preferences : /\ p.autosave_interval = MinInterval
                                      /\ p.default_save_path \in {<<>>, TmpSaveDir}}
    /\ events = 0
    /\ last = Log("init")
    /\ promptCount = 0
    /\ streak = <<>>

\* register(): the host enables an add-on that is not enabled
Register ==
    /\ ~registered
    /\ events < MaxEvents
    /\ autosave_running' = TRUE
    /\ has_prompted_save' = FALSE
    /\ registered' = TRUE
    /\ load_post' = TRUE
    /\ timers' = start_autosave_timer(timers)
    /\ events' = events + 1
    /\ promptCount' = 0
    /\ last' = Log("register")
    /\ UNCHANGED <<now, filepath, files, prefs, streak>>

\* unregister()
Unregister ==
    /\ registered
    /\ autosave_running' = FALSE
    /\ load_post' = FALSE
    /\ registered' = FALSE
    /\ last' = Log("unregister")
    /\ UNCHANGED <<has_prompted_save, timers, now, filepath, files,
                   prefs, events, promptCount, streak>>

\* The host loads (or creates) a document and runs the load_post handlers.
\* The timers were registered without persistent=True, so the host removes
\* them when a document is loaded, before the handlers run.
FileLoad(p) ==
    /\ events < MaxEvents
    /\ events' = events + 1
    /\ filepath' = p
    /\ timers' = IF load_post THEN start_autosave_timer(<<>>) ELSE <<>>
    /\ last' = [Log("load") EXCEPT !.steps = IF load_post THEN {"start"} ELSE {}]
    /\ UNCHANGED <<autosave_running, has_prompted_save, registered, load_post, now,
                   files, prefs, promptCount, streak>>

\* The user saves the document under a name (no handler of the add-on runs)
SaveAs(p) ==
    /\ events < MaxEvents
    /\ events' = events + 1
    /\ p # Unsaved
    /\ p # filepath
    /\ filepath' = p
    /\ last' = Log("saveas")
    /\ UNCHANGED <<autosave_running, has_prompted_save, registered, load_post, timers,
                   now, files, prefs, promptCount, streak>>

\* The user enters a value for one of the preferences between two timer calls
SetPrefs(p) ==
    /\ events < MaxEvents
    /\ events' = events + 1
    /\ p # prefs
    /\ \/ p = [prefs EXCEPT !.autosave_interval = p.autosave_interval]
       \/ p = [prefs EXCEPT !.max_backup_files = p.max_backup_files]
       \/ p = [prefs EXCEPT !.default_save_path = p.default_save_path]
    /\ prefs' = [p EXCEPT !.autosave_interval = ClampInterval(@)]
    /\ last' = [Log("prefs") EXCEPT !.entered = p.autosave_interval]
    /\ UNCHANGED <<autosave_running, has_prompted_save, registered, load_post, timers,
                   now, filepath, files, promptCount, streak>>

\* consecutive ticks that saved and rotated without any failure, for one
\* directory, base name and retention count: the paths they wrote, the latest three
NextStreak(log, complete) ==
    IF ~complete THEN <<>>
    ELSE LET same == /\ streak # <<>>
                     /\ last.op = "tick"
                     /\ last.base_dir = log.base_dir
                     /\ last.base_name = log.base_name
                     /\ last.maxb = log.maxb
             s    == (IF same THEN streak ELSE <<>>) \o <<log.new_filepath>>
         IN  IF Len(s) > 3 THEN SubSeq(s, 2, 4) ELSE s

\* whether one more host call may fail
Outcomes(used) == IF events + used < MaxEvents THEN BOOLEAN ELSE {TRUE}

\* the end of a timer call: the host re-arms the timer with the delay it
\* returned, or drops it (None, or an exception)
TickEnd(i, t, prompted, fs, log, used, complete) ==
    /\ now' = t
    /\ timers' = IF log.ret < 0 THEN RemoveAt(timers, i)
                 ELSE InsertDue(RemoveAt(timers, i), t + log.ret)
    /\ has_prompted_save' = prompted
    /\ files' = fs
    /\ last' = log
    /\ events' = events + used
    /\ promptCount' = IF log.prompt THEN promptCount + 1 ELSE promptCount
    /\ streak' = NextStreak(log, complete)
    /\ UNCHANGED <<autosave_running, registered, load_post, filepath, prefs>>

\* backup management (the second try block), on the file system fs1 left by the save
Rotate(i, t, log, fs1, used) ==
    \E listOk \in Outcomes(used) :
       IF ~listOk
       THEN \* os.listdir or os.path.getmtime raised: "Backup management error"
            TickEnd(i, t, has_prompted_save, fs1,
                    [log EXCEPT !.steps = @ \cup {"listfail"}], used + 1, FALSE)
       ELSE LET names == {f \in listdir(fs1, log.base_dir) : IsBackupName(f, log.base_name)}
            IN  \E order \in Orders(names) :
                  LET backup_files == [k \in 1..Len(order) |-> join(log.base_dir, order[k])]
                      sorted == SortByMtime(backup_files, fs1)
                      npop   == Max(0, Len(sorted) - log.maxb)
                  IN  \E cannot \in {c \in SUBSET Range(SubSeq(sorted, 1, npop)) :
                                        events + used + Cardinality(c) <= MaxEvents} :
                        LET r == RemoveOld(sorted, log.maxb, cannot)
                        IN  TickEnd(i, t, has_prompted_save, RemoveFiles(fs1, r.deleted),
                                    [log EXCEPT !.steps = @ \cup {"list"},
                                                !.cands = sorted,
                                                !.mtime = [f \in Range(sorted) |-> fs1[f]],
                                                !.attempts = r.attempts,
                                                !.deleted = r.deleted],
                                    used + Cardinality(cannot),
                                    log.saveOk /\ cannot = {})

\* autosave_timer(), called by the host for the registration that is due first
Tick ==
    /\ timers # <<>>
    /\ timers[1] <= MaxTime \/ ~autosave_running
    /\ LET i  == 1
           t  == Max(now, timers[i])
           \* the interval value entered just before this call, if one was
           l0 == [Log("tick") EXCEPT !.entered = IF last.op = "prefs" THEN last.entered ELSE 0]
       IN
       IF ~TimerProceeds(autosave_running)
       THEN TickEnd(i, t, has_prompted_save, files, [l0 EXCEPT !.ret = NONE], 0, FALSE)
       ELSE
       \E prefsOk \in Outcomes(0) :
       IF ~prefsOk
       THEN TickEnd(i, t, has_prompted_save, files,
                    [l0 EXCEPT !.ret = FallbackDelay, !.steps = {"configfail"}], 1, FALSE)
       ELSE
       LET interval == prefs.autosave_interval
           max_backup_files == prefs.max_backup_files
           dest == Resolve(filepath, prefs.default_save_path)
           l1   == [l0 EXCEPT !.steps = {"config", "forbidden", "resolve"},
                              !.interval = interval, !.maxb = max_backup_files,
                              !.ret = interval,
                              !.base_dir = dest.base_dir, !.base_name = dest.base_name]
       IN
       IF ~dest.found
       THEN IF ShouldPrompt(filepath, has_prompted_save)
            THEN \E promptOk \in Outcomes(0) :
                    TickEnd(i, t, PromptedAfter(has_prompted_save), files,
                            [l1 EXCEPT !.prompt = TRUE, !.steps = @ \cup {"prompt"},
                                       !.ret = IF promptOk THEN interval ELSE RAISED],
                            IF promptOk THEN 0 ELSE 1, FALSE)
            ELSE TickEnd(i, t, has_prompted_save, files, l1, 0, FALSE)
       ELSE
       LET new_filepath == join(dest.base_dir, new_filename(dest.base_name, t))
           l2 == [l1 EXCEPT !.new_filepath = new_filepath]
       IN
       \E ctxOk \in Outcomes(0) :
       IF ~ctxOk
       THEN \* get_override_context() raised, outside every try block
            TickEnd(i, t, has_prompted_save, files,
                    [l2 EXCEPT !.steps = @ \cup {"contextfail"}, !.ret = RAISED], 1, FALSE)
       ELSE
       \E saveOk \in Outcomes(0) :
       LET fs1  == IF saveOk THEN WriteFile(files, new_filepath, t) ELSE files
           l3   == [l2 EXCEPT !.steps = @ \cup {"context", "save"}, !.saveOk = saveOk]
           used == IF saveOk THEN 0 ELSE 1
       IN  IF RotatesAfterSave(saveOk)
           THEN Rotate(i, t, l3, fs1, used)
           ELSE TickEnd(i, t, has_prompted_save, fs1, l3, used, FALSE)

Next ==
    \/ Register
    \/ Unregister
    \/ \E p \in DocPaths : FileLoad(p)
    \/ \E p \in DocPaths : SaveAs(p)
    \/ \E p \in EnteredPreferences : SetPrefs(p)
    \/ Tick

Spec == Init /\ [][Next]_vars

\* the host calls every registered timer when it is due; the calls made while
\* the add-on is stopped are the ones the termination of the chains rests on
StoppedTick == ~autosave_running /\ Tick

LiveSpec == Spec /\ WF_vars(StoppedTick)

\* ------------------------------------------------------------- the claims
\* a path lies inside a directory: the directory itself or something below it
InsideDir(p, d) == p = d \/ startswith(p, d \o <<"/">>)

ForbiddenDirs == {realpath(TmpDir), realpath(InstallDir)}

\* the files of a file system that lie directly in dir and are named base_*.blend
PatternFiles(paths, dir, base) ==
    {p \in paths : /\ Len(p) = Len(dir) + 1 + Len(basename(p))
                   /\ SubSeq(p, 1, Len(dir)) = dir
                   /\ Len(basename(p)) >= Len(base) + 2
                   /\ SubSeq(basename(p), 1, Len(base)) = base
                   /\ basename(p)[Len(base) + 1] = "_"
                   /\ basename(p)[Len(basename(p))] = ".blend"}

TickDone == last.op = "tick"

\* the last tick saved, listed and removed without any failure
TickComplete ==
    /\ TickDone
    /\ last.saveOk
    /\ "list" \in last.steps
    /\ Range(last.attempts) = last.deleted

\* C1: in a tick whose save failed no file is deleted (no rotation is
\* performed), and the tick still returns a delay
C1_NoRotationAfterFailedSave ==
    (TickDone /\ "save" \in last.steps /\ ~last.saveOk)
        => (last.deleted = {} /\ last.ret >= 0)

\* C2: the directory a tick resolves as the destination never lies inside a
\* forbidden directory (temp directory, install directory)
C2_DestinationNeverForbidden ==
    (TickDone /\ last.base_dir # <<>>)
        => \A d \in ForbiddenDirs : ~InsideDir(realpath(last.base_dir), d)

\* C3: within one activation the prompt is invoked at most once: after every
\* tick of an unsaved document without a usable default directory exactly one
\* prompt has been made since register(), and the flag is set exactly when a
\* prompt has been made since register()
C3_PromptOncePerActivation ==
    /\ promptCount <= 1
    /\ has_prompted_save <=> promptCount = 1
    /\ (TickDone /\ last.running /\ "resolve" \in last.steps
            /\ filepath = Unsaved /\ last.base_dir = <<>>) => promptCount = 1

C3_Witness ==
    /\ TickDone /\ last.running /\ "resolve" \in last.steps
    /\ filepath = Unsaved /\ last.base_dir = <<>>
    /\ ~last.prompt /\ promptCount = 1

\* C4: a start while the scheduler is running with a tick already scheduled
\* is a no-op: the scheduled ticks stay as they were
C4_StartIsIdempotent ==
    [][(last'.op = "load" /\ "start" \in last'.steps
            /\ autosave_running /\ timers # <<>>) => timers' = timers]_vars

\* C5: a tick that begins while running always returns a delay, whatever fails in it
C5_TickAlwaysReschedules ==
    (TickDone /\ last.running) => last.ret >= 0

\* C6: a tick that begins while stopped has no effect: no config read, no
\* prompt, no save, no deletion; it returns None and its chain ends
C6_StoppedTickDoesNothing ==
    [][(last'.op = "tick" /\ ~autosave_running) =>
          /\ files' = files
          /\ has_prompted_save' = has_prompted_save
          /\ promptCount' = promptCount
          /\ last'.steps = {}
          /\ last'.ret = NONE
          /\ timers' = Tail(timers)]_vars

C6_Witness == TickDone /\ ~last.running /\ ~registered

\* C7: when the listing is obtained and every deletion succeeds, rotation over
\* N matching files with retention count k removes exactly max(0, N - k) of
\* them, none of the removed is newer than any that remains, and the others remain
C7_RotationRemovesOldest ==
    (TickDone /\ "list" \in last.steps /\ Range(last.attempts) = last.deleted) =>
        LET kept == PatternFiles(DOMAIN files, last.base_dir, last.base_name)
            gone == last.deleted
            N    == Cardinality(kept) + Cardinality(gone)
        IN  /\ gone \cap DOMAIN files = {}
            /\ Cardinality(gone) = Max(0, N - last.maxb)
            /\ Cardinality(kept) = IF N <= last.maxb THEN N ELSE last.maxb
            /\ \A g \in gone : \A r \in kept : last.mtime[g] <= files[r]

C7_Witness ==
    /\ TickDone /\ "list" \in last.steps /\ Range(last.attempts) = last.deleted
    /\ Cardinality(last.deleted) = 2
    /\ Cardinality(PatternFiles(DOMAIN files, last.base_dir, last.base_name)) = 1

\* C8: the file a tick has just written is not among those its rotation deletes
C8_NewFileNotDeleted ==
    (TickDone /\ last.saveOk) => last.new_filepath \notin last.deleted

\* C9: a tick only removes files directly in the resolved directory that are
\* named base_*.blend; every other file stays
C9_OnlyPatternFilesDeleted ==
    [][last'.op = "tick" =>
          (DOMAIN files \ DOMAIN files')
              \subseteq PatternFiles(DOMAIN files \cup DOMAIN files',
                                     last'.base_dir, last'.base_name)]_vars

C9_Witness ==
    /\ TickDone /\ last.deleted # {}
    /\ \E p \in DOMAIN files :
          /\ dirname(p) = last.base_dir
          /\ startswith(basename(p), last.base_name \o <<"_">>)
          /\ p \notin PatternFiles(DOMAIN files, last.base_dir, last.base_name)

\* C10: after a complete tick at most maxBackupFiles matching files remain;
\* after three consecutive complete ticks with maxBackupFiles = 2 exactly two
\* remain and the first of the three snapshots is gone
C10_ThreeTicksKeepTwo ==
    TickComplete =>
        LET kept == PatternFiles(DOMAIN files, last.base_dir, last.base_name)
        IN  /\ Cardinality(kept) <= last.maxb
            /\ (Len(streak) = 3 /\ last.maxb = 2) =>
                  (Cardinality(kept) = 2 /\ streak[1] \notin DOMAIN files)

\* C11: two consecutive ticks that saved for the same document and directory,
\* at least the minimum interval apart, wrote to different paths
C11_ConsecutiveSnapshotsDistinct ==
    [][(/\ last.op = "tick" /\ last.saveOk
        /\ last'.op = "tick" /\ last'.saveOk
        /\ filepath' = filepath
        /\ last'.base_dir = last.base_dir
        /\ last'.base_name = last.base_name
        /\ now' - now >= 30)
           => last'.new_filepath # last.new_filepath]_vars

\* the decision table of the destination, written out for the documents in use
IsForbidden(p) == \E d \in ForbiddenDirs : startswith(realpath(p), d)

ParentOf(p) == CASE p = DocProject -> <<"/", "docs">>
                 [] p = DocScene   -> <<"/", "docs", "/", "cache">>
                 [] OTHER          -> <<>>

StemOf(p) == CASE p = DocProject -> <<"project">>
               [] p = DocScene   -> <<"scene">>
               [] OTHER          -> <<>>

DecisionTable(path, default, prompted) ==
    IF path # <<>> /\ ~IsForbidden(path)
    THEN [dir |-> ParentOf(path), base |-> StemOf(path), prompt |-> FALSE]
    ELSE IF default # <<>> /\ default \in ExistingDirs
    THEN [dir |-> default,
          base |-> IF path # <<>> THEN StemOf(path) ELSE <<"untitled">>,
          prompt |-> FALSE]
    ELSE [dir |-> <<>>, base |-> <<>>, prompt |-> path = <<>> /\ ~prompted]

\* C12: the directory and base name a tick resolves, and whether it prompts,
\* are those of the decision table for the document path, the default
\* directory and the prompted flag the tick found
C12_DestinationFollowsTable ==
    [][(last'.op = "tick" /\ "resolve" \in last'.steps) =>
          LET d == DecisionTable(filepath, prefs.default_save_path, has_prompted_save)
          IN  /\ last'.base_dir = d.dir
              /\ last'.base_name = d.base
              /\ last'.prompt = d.prompt
              /\ (d.dir = <<>>) => last'.steps \cap {"save", "list", "listfail"} = {}]_vars

C12_Witness ==
    /\ TickDone /\ "save" \in last.steps
    /\ filepath = DocScene
    /\ last.base_dir = TmpSaveDir
    /\ last.base_name = <<"scene">>

\* C13: a tick in which the settings cannot be read makes no prompt, no save
\* and no rotation, leaves both flags as they were, and is re-armed after 300
\* seconds, which is none of the configured intervals
C13_ConfigUnavailableSkips ==
    [][(last'.op = "tick" /\ "configfail" \in last'.steps) =>
          /\ last'.steps = {"configfail"}
          /\ ~last'.prompt /\ promptCount' = promptCount
          /\ files' = files
          /\ autosave_running' = autosave_running
          /\ has_prompted_save' = has_prompted_save
          /\ last'.ret = 300
          /\ last'.ret # prefs.autosave_interval
          /\ timers' = InsertDue(Tail(timers), now' + 300)]_vars

C13_Witness ==
    /\ TickDone /\ "configfail" \in last.steps
    /\ last.ret = 300
    /\ \E i \in 1..Len(timers) : timers[i] = now + 300

\* C14: every delay a tick returns while running is at least 30 seconds,
\* whatever value was entered for the interval, and when the settings were
\* read it is the interval stored at that tick
C14_DelayAtLeastMinimum ==
    (TickDone /\ last.running /\ last.ret >= 0) =>
        /\ last.ret >= 30
        /\ prefs.autosave_interval >= 30
        /\ ("config" \in last.steps) => last.ret = prefs.autosave_interval

C14_Witness ==
    /\ TickDone /\ last.running
    /\ last.entered > 0 /\ last.entered < 30
    /\ last.ret = 30

\* C15: an activation has at most one tick chain: a tick left pending by an
\* earlier activation does not run on beside the one of the new activation
C15_OneChainPerActivation == registered => Len(timers) <= 1

\* once stopped, and unless started again, eventually no tick is pending
StoppedChainsTerminate == (~autosave_running) ~> (autosave_running \/ timers = <<>>)

\* a tick chain ends only at a tick that began while stopped
ChainEndsOnlyWhenStopped ==
    [][(last'.op = "tick" /\ Len(timers') < Len(timers)) => ~autosave_running]_vars

\* C16: after a stop without a later start every tick chain ends, and a tick
\* chain ends only at a tick that began while stopped (a tick that began
\* while running returns a delay)
C16_ScheduleEndsOnlyByStop == StoppedChainsTerminate /\ ChainEndsOnlyWhenStopped

\* the order of the name fragments that tell the names in use apart, as
\* strings compare ("0" < "1" < "old" < "v2")
LexOrder == <<"0", "1", "old", "v2">>

LexRank(f) == CHOOSE i \in 1..Len(LexOrder) : LexOrder[i] = f

LexLess(a, b) ==
    \E i \in 1..Len(a) :
       /\ i <= Len(b)
       /\ SubSeq(a, 1, i - 1) = SubSeq(b, 1, i - 1)
       /\ a[i] # b[i]
       /\ a[i] \in Range(LexOrder) /\ b[i] \in Range(LexOrder)
       /\ LexRank(a[i]) < LexRank(b[i])

\* C17: among candidates of equal modification time the lexically smaller
\* name is deleted first: a deleted file that ties with one that was kept has
\* the smaller name, in whatever order the directory was listed
C17_TiesBrokenLexically ==
    (TickComplete /\ last.ret >= 0) =>
        \A g \in last.deleted : \A r \in Range(last.cands) \ last.deleted :
            last.mtime[g] = last.mtime[r] => LexLess(basename(g), basename(r))

\* C18: with N matching files and retention count k the removal loop attempts
\* each of the max(0, N - k) oldest once, in order, whether removals fail or
\* not; what was removed is gone, what could not be removed is still there,
\* and the tick returns the configured interval
C18_FailedRemovalDoesNotAbort ==
    (TickDone /\ "list" \in last.steps) =>
        LET all  == PatternFiles(DOMAIN files \cup last.deleted, last.base_dir, last.base_name)
            n    == Max(0, Cardinality(all) - last.maxb)
            rest == all \ Range(last.attempts)
        IN  /\ Range(last.cands) = all
            /\ Len(last.attempts) = n
            /\ Cardinality(Range(last.attempts)) = n
            /\ Range(last.attempts) \subseteq all
            /\ \A a \in Range(last.attempts) : \A r \in rest : last.mtime[a] <= last.mtime[r]
            /\ last.deleted \subseteq Range(last.attempts)
            /\ last.deleted \cap DOMAIN files = {}
            /\ (Range(last.attempts) \ last.deleted) \subseteq DOMAIN files
            /\ rest \subseteq DOMAIN files
            /\ last.ret = prefs.autosave_interval

C18_Witness ==
    /\ TickDone /\ "list" \in last.steps
    /\ Len(last.attempts) = 2
    /\ last.attempts[1] \notin last.deleted
    /\ last.attempts[1] \in DOMAIN files
    /\ last.attempts[2] \in last.deleted

SnapshotNames(base) == {base \o <<"_", ToString(m), ".blend">> : m \in 0..(MaxTime \div 60)}

\* C20: every file a tick deletes is a snapshot of the tick's own document
\* (base name, "_", a timestamp, ".blend"), never another file of the
\* directory whose name begins with the base name and "_"
C20_OnlyOwnSnapshotsDeleted ==
    TickComplete => \A p \in last.deleted : basename(p) \in SnapshotNames(last.base_name)

====
